---- MODULE Spec2Model ----
(***************************************************************************)
(* A model of stop_idle_sessions.main: the session graph builder           *)
(* (load_sessions), the eligibility filter (skip_ineligible_session), the  *)
(* idleness evaluator (compute_idleness_metric) and the enforcer loop of   *)
(* main.  Durations and timestamps are integers counted in seconds.        *)
(***************************************************************************)
EXTENDS Integers, Sequences, FiniteSets, TLC

VARIABLES
    pc,         \* position of main: "config", "load", "loop", "done", or "failed"
                \* when main has ended with an error
    dry_run,    \* main's dry_run after configuration and command line
    timeout,    \* main's timeout, in minutes
    excluded_users, \* main's excluded_users list
    now,        \* main's now (line 391), seconds
    sessions,   \* the list returned by load_sessions (line 392)
    idx,        \* position of "for session in sessions" (1-based)
    killed,     \* session indices on which kill_session_leader was called, in call order
    evaluated,  \* calls of compute_idleness_metric made so far: <<session index, nested>>
    stack,      \* call stack of compute_idleness_metric when it is run step by step
    ret,        \* value returned (or error raised) by the last finished call
    loads,      \* number of calls of load_sessions made so far
    args,       \* main's args.config_file after a failed open; the arguments of
                \* a function that is applied on its own
    platform    \* what the host shows to the adapters: logind sessions with
                \* their processes, terminals and displays, loopback connections,
                \* and the processes that have been stopped

vars == <<pc, dry_run, timeout, excluded_users, now, sessions, idx, killed,
          evaluated, stack, ret, loads, args, platform>>

---------------------------------------------------------------------------
(* Bounds of the model *)

\* timeout is drawn from 0..MaxTimeout minutes
MaxTimeout == 1
\* idle durations of the terminal and display signals are drawn from
\* whole minutes up to MaxIdleMinutes (and one minute in the future)
MaxIdleMinutes == 1

\* datetime.timedelta(seconds=60 * timeout)
SecondsPerMinute == 60

\* The wall clock value read by main, late enough for every drawn atime >= 0
Now == SecondsPerMinute * (MaxIdleMinutes + 1)

\* Timestamps a terminal may carry: from MaxIdleMinutes ago to one minute ahead
ClockTimes == { Now - SecondsPerMinute * k : k \in (-1)..MaxIdleMinutes }
\* Idle durations the X11 Screen Saver extension may report (non-negative)
DisplayIdles == { SecondsPerMinute * k : k \in 0..MaxIdleMinutes }

\* An optional value is the empty sequence (None) or a one-element sequence
None == <<>>
Some(v) == <<v>>
IsNone(o) == o = <<>>
Val(o) == o[1]

SessionTypes == {"tty", "x11", "wayland", "mir"}
GraphicalTypes == {"x11", "wayland", "mir"}
Usernames == {"auser", "ansible"}
ExcludedUserLists == { <<"">>, <<"ansible">> }

---------------------------------------------------------------------------
(* load_sessions *)

InSeq(x, s) == \E i \in 1..Len(s) : s[i] = x

RECURSIVE Flatten(_)
Flatten(ss) == IF ss = <<>> THEN <<>> ELSE Head(ss) \o Flatten(Tail(ss))

\* The (client process, server process) pairs of one loopback connection, in
\* the order of the nested loops of lines 120-121
ConnPairs(conn) ==
    Flatten([i \in 1..Len(conn.client) |->
                [j \in 1..Len(conn.server) |-> <<conn.client[i], conn.server[j]>>]])

\* Mutant: a process on either side of a connection lists the process on the
\* other side
RECURSIVE ScanPairsBothWays(_, _, _)
ScanPairsBothWays(pid, pairs, acc) ==
    IF pairs = <<>> THEN acc
    ELSE LET p == Head(pairs) IN
         ScanPairsBothWays(pid, Tail(pairs),
             IF pid = p[1] /\ ~InSeq(p[2], acc) THEN Append(acc, p[2])
             ELSE IF pid = p[2] /\ ~InSeq(p[1], acc) THEN Append(acc, p[1])
             ELSE acc)

\* Mutant: the server process is appended without the test of line 123
RECURSIVE ScanPairsNoDedup(_, _, _)
ScanPairsNoDedup(pid, pairs, acc) ==
    IF pairs = <<>> THEN acc
    ELSE LET p == Head(pairs) IN
         ScanPairsNoDedup(pid, Tail(pairs),
                          IF pid = p[1] THEN Append(acc, p[2]) ELSE acc)

\* Lines 122-124: append the server process unless it is already listed
RECURSIVE ScanPairs(_, _, _)
ScanPairs(pid, pairs, acc) ==
    IF pairs = <<>> THEN acc
    ELSE LET p == Head(pairs) IN
         ScanPairs(pid, Tail(pairs),
                   IF pid = p[1] /\ ~InSeq(p[2], acc) THEN Append(acc, p[2]) ELSE acc)

\* Lines 113-124: the tunneled_processes of one process
TunneledProcesses(pid, loopback_connections) ==
    ScanPairs(pid, Flatten([c \in 1..Len(loopback_connections) |->
                               ConnPairs(loopback_connections[c])]), <<>>)

\* Lines 126-130: the SessionProcess list of one logind session
SessionProcesses(ps_table, loopback_connections) ==
    [k \in 1..Len(ps_table) |->
        [pid |-> ps_table[k],
         tunneled_processes |-> TunneledProcesses(ps_table[k], loopback_connections),
         tunneled_sessions |-> <<>>]]

\* Lines 98-157: pass one. A logind session (with what the adapters return
\* for it) becomes a Session record
BuildSession(ls, loopback_connections) ==
    [session_id |-> ls.session_id,
     session_type |-> ls.session_type,
     leader |-> ls.leader,
     tty |-> IF ls.tty # "" THEN Some(ls.tty_stat) ELSE None,
     display_idle |-> ls.display_idle,
     username |-> ls.username,
     processes |-> SessionProcesses(ls.ps_table, loopback_connections)]

\* Lines 99-157 raise SessionParseError for this logind session: an adapter
\* (getent at 103, ps at 109, tty at 134 or x11 at 138) fails for it
RaisesParseError(ls) == ls.parse_error # ""

\* Mutant: a SessionParseError ends pass one
RECURSIVE PassOneFromStopsAtError(_, _, _)
PassOneFromStopsAtError(logind_sessions, loopback_connections, built) ==
    IF logind_sessions = <<>> \/ RaisesParseError(Head(logind_sessions)) THEN built
    ELSE PassOneFromStopsAtError(Tail(logind_sessions), loopback_connections,
             Append(built, BuildSession(Head(logind_sessions), loopback_connections)))

\* Lines 98-164: a session is appended (lines 141, 150) at the end of the try
\* block; a SessionParseError is logged (line 160) and the loop goes on
RECURSIVE PassOneFrom(_, _, _)
PassOneFrom(logind_sessions, loopback_connections, built) ==
    IF logind_sessions = <<>> THEN built
    ELSE PassOneFrom(Tail(logind_sessions), loopback_connections,
             IF RaisesParseError(Head(logind_sessions)) THEN built
             ELSE Append(built, BuildSession(Head(logind_sessions),
                                             loopback_connections)))

PassOne(logind_sessions, loopback_connections) ==
    PassOneFrom(logind_sessions, loopback_connections, <<>>)

\* Mutant: only the first process of session_b is compared
ResolveTunnelsFirstProcessOnly(built, process_a) ==
    Flatten([b \in 1..Len(built) |->
        Flatten([t \in 1..Len(process_a.tunneled_processes) |->
            IF built[b].processes # <<>>
               /\ process_a.tunneled_processes[t] = built[b].processes[1].pid
            THEN <<b>> ELSE <<>>])])

\* Mutant: only the first session of the list holding a backend process is
\* resolved
ResolveTunnelsFirstSessionOnly(built, process_a) ==
    LET Matches(b) ==
            \E k \in 1..Len(built[b].processes),
               t \in 1..Len(process_a.tunneled_processes) :
                process_a.tunneled_processes[t] = built[b].processes[k].pid
    IN Flatten([b \in 1..Len(built) |->
           IF Matches(b) /\ \A c \in 1..(b - 1) : ~Matches(c) THEN <<b>> ELSE <<>>])

\* Lines 167-172 for one process_a: session_b is appended once for each
\* (process_b, backend_process_a) match, sessions and processes in list order
ResolveTunnels(built, process_a) ==
    Flatten([b \in 1..Len(built) |->
        Flatten([k \in 1..Len(built[b].processes) |->
            Flatten([t \in 1..Len(process_a.tunneled_processes) |->
                IF process_a.tunneled_processes[t] = built[b].processes[k].pid
                THEN <<b>> ELSE <<>>])])])

\* Lines 166-172: pass two. tunneled_sessions holds positions in the list
PassTwo(built) ==
    [a \in 1..Len(built) |->
        [built[a] EXCEPT !.processes =
            [k \in 1..Len(built[a].processes) |->
                [built[a].processes[k] EXCEPT
                    !.tunneled_sessions = ResolveTunnels(built, built[a].processes[k])]]]]

\* Lines 82-190
LoadSessionsResult(logind_sessions, loopback_connections) ==
    PassTwo(PassOne(logind_sessions, loopback_connections))

---------------------------------------------------------------------------
(* skip_ineligible_session *)

\* Mutant: the check of the leader pid (lines 228-231) is missing
SkipIneligibleNoLeaderCheck(session, excluded) ==
    IF session.session_type \in {"x11", "wayland", "mir"} THEN TRUE
    ELSE IF IsNone(session.tty) THEN TRUE
    ELSE IF ~IsNone(excluded) /\ InSeq(session.username, Val(excluded)) THEN TRUE
    ELSE FALSE

\* Mutant: 'mir' is missing from the tuple of graphical types (line 206)
SkipIneligibleWithoutMir(session, excluded) ==
    IF session.session_type \in {"x11", "wayland"} THEN TRUE
    ELSE IF IsNone(session.tty) THEN TRUE
    ELSE IF ~IsNone(excluded) /\ InSeq(session.username, Val(excluded)) THEN TRUE
    ELSE IF session.leader = 0 THEN TRUE
    ELSE FALSE

\* Mutant: the check of the terminal (lines 213-216) is missing
SkipIneligibleNoTtyCheck(session, excluded) ==
    IF session.session_type \in {"x11", "wayland", "mir"} THEN TRUE
    ELSE IF ~IsNone(excluded) /\ InSeq(session.username, Val(excluded)) THEN TRUE
    ELSE IF session.leader = 0 THEN TRUE
    ELSE FALSE

\* Lines 193-233. excluded_users is None or Some(list)
SkipIneligibleSession(session, excluded) ==
    IF session.session_type \in {"x11", "wayland", "mir"} THEN TRUE
    ELSE IF IsNone(session.tty) THEN TRUE
    ELSE IF ~IsNone(excluded) /\ InSeq(session.username, Val(excluded)) THEN TRUE
    ELSE IF session.leader = 0 THEN TRUE
    ELSE FALSE

---------------------------------------------------------------------------
(* compute_idleness_metric *)

\* Line 263-264: minimum_idle = None, determined_by = ""
NoMinimum == [set |-> FALSE, idle |-> 0, by |-> <<>>]

\* Mutant: a present candidate replaces the minimum when it is greater
ConsiderGreatest(m, present, d, by) ==
    IF present /\ (~m.set \/ d > m.idle)
    THEN [set |-> TRUE, idle |-> d, by |-> by]
    ELSE m

\* Mutant: a present candidate replaces the minimum when it is equal as well
ConsiderLastOfEqual(m, present, d, by) ==
    IF present /\ (~m.set \/ d <= m.idle)
    THEN [set |-> TRUE, idle |-> d, by |-> by]
    ELSE m

\* Mutant: a present candidate always replaces the minimum
ConsiderLatest(m, present, d, by) ==
    IF present THEN [set |-> TRUE, idle |-> d, by |-> by] ELSE m

\* The pattern of lines 268-270, 276-278, 284-286 and 302-305: a present
\* candidate replaces the minimum when there is none or it is strictly less
Consider(m, present, d, by) ==
    IF present /\ (~m.set \/ d < m.idle)
    THEN [set |-> TRUE, idle |-> d, by |-> by]
    ELSE m

\* Mutant: the subtraction of line 269-270 is reversed
AfterAtimeReversed(session, t, m) ==
    Consider(m, ~IsNone(session.tty),
             IF IsNone(session.tty) THEN 0 ELSE Val(session.tty).atime - t, <<"atime">>)

\* Mutant: mtime is not looked at, as in logind's own idle tracking
AfterMtimeIgnored(session, t, m) == m

\* Lines 268-271
AfterAtime(session, t, m) ==
    Consider(m, ~IsNone(session.tty),
             IF IsNone(session.tty) THEN 0 ELSE t - Val(session.tty).atime, <<"atime">>)
\* Lines 276-279
AfterMtime(session, t, m) ==
    Consider(m, ~IsNone(session.tty),
             IF IsNone(session.tty) THEN 0 ELSE t - Val(session.tty).mtime, <<"mtime">>)
\* Mutant: the display idle time is not looked at
AfterDisplayIgnored(session, m) == m

\* Lines 284-287
AfterDisplay(session, m) ==
    Consider(m, ~IsNone(session.display_idle),
             IF IsNone(session.display_idle) THEN 0 ELSE Val(session.display_idle),
             <<"display">>)

\* Lines 263-287: the session's own signals
OwnSignals(session, t) ==
    AfterDisplay(session, AfterMtime(session, t, AfterAtime(session, t, NoMinimum)))

\* Mutant: the tunneled-session branch is entered by nested calls as well
EntersTunnelsAlways(nested) == TRUE

\* Line 294: the tunneled-session branch is entered when not nested
EntersTunnels(nested) == ~nested

\* Mutant: the recursive call does not say that it is nested
NestedArgumentFalse == FALSE

\* Line 301: the nested argument of the recursive call
NestedArgument == TRUE

\* Lines 295-296: the tunneled sessions in process order, then list order
TunnelList(session) ==
    Flatten([k \in 1..Len(session.processes) |->
                session.processes[k].tunneled_sessions])

\* Mutant: without a candidate the call returns a zero duration
OutcomeZeroWhenNone(m) ==
    [raised |-> FALSE, idle |-> IF m.set THEN m.idle ELSE 0, by |-> m.by]

\* Lines 310-318: raise SessionParseError or return minimum_idle
Outcome(m) ==
    IF ~m.set THEN [raised |-> TRUE, idle |-> 0, by |-> <<>>]
    ELSE [raised |-> FALSE, idle |-> m.idle, by |-> m.by]

\* Mutant: a SessionParseError of a tunneled session is not passed over, the
\* candidates seen so far are lost with it
AfterInnerErrorAborts(ss, inner_index, inner, m) ==
    IF inner.raised THEN NoMinimum
    ELSE Consider(m, TRUE, inner.idle, <<"nested", ss[inner_index].session_id>>)

\* Mutant: the result of a tunneled session that the eligibility filter would
\* skip is left out
AfterInnerFiltered(ss, inner_index, inner, m) ==
    Consider(m, ~inner.raised /\ ~SkipIneligibleSession(ss[inner_index], None),
             inner.idle, <<"nested", ss[inner_index].session_id>>)

\* Lines 298-308: one inner result; a raised SessionParseError is passed over
AfterInner(ss, inner_index, inner, m) ==
    Consider(m, ~inner.raised, inner.idle, <<"nested", ss[inner_index].session_id>>)

RECURSIVE ComputeIdlenessMetric(_, _, _, _)
RECURSIVE OverTunnels(_, _, _, _)

\* Lines 295-308
OverTunnels(ss, tunnels, t, m) ==
    IF tunnels = <<>> THEN m
    ELSE OverTunnels(ss, Tail(tunnels), t,
             AfterInner(ss, Head(tunnels),
                        ComputeIdlenessMetric(ss, Head(tunnels), t, NestedArgument), m))

\* Lines 236-318: the session at position i of the list ss
ComputeIdlenessMetric(ss, i, t, nested) ==
    LET own == OwnSignals(ss[i], t) IN
    Outcome(IF EntersTunnels(nested)
            THEN OverTunnels(ss, TunnelList(ss[i]), t, own)
            ELSE own)

\* The calls of compute_idleness_metric made by one top-level call
CallsOf(ss, i) ==
    {<<i, FALSE>>} \cup
    (IF EntersTunnels(FALSE)
     THEN { <<TunnelList(ss[i])[k], NestedArgument>> : k \in 1..Len(TunnelList(ss[i])) }
     ELSE {})

---------------------------------------------------------------------------
(* What the platform adapters may return *)

\* Session ids logind may report, in the order it reports them
SessionIdList == <<"7", "14", "c1">>

\* The process of the k-th logind session (its scope holds one process)
PidOf(k) == 100 * k

\* stop_idle_sessions.tty.TTY(name): atime and mtime of the device node
TtyStats == [atime : ClockTimes, mtime : ClockTimes]
TtyChoices(k) ==
    {[tty |-> "", tty_stat |-> [atime |-> Now, mtime |-> Now]]} \cup
    {[tty |-> "pts", tty_stat |-> st] : st \in TtyStats}

\* One logind session together with what getent, ps, tty and x11 return for
\* it; parse_error names the adapter that raises SessionParseError, if any
LogindSession(k, ty, ld, tc, di, un) ==
    [session_id |-> SessionIdList[k],
     session_type |-> ty,
     leader |-> ld,
     tty |-> tc.tty,
     tty_stat |-> tc.tty_stat,
     display_idle |-> di,
     username |-> un,
     ps_table |-> <<PidOf(k)>>,
     parse_error |-> ""]

DisplayChoices == {None} \cup {Some(d) : d \in DisplayIdles}

\* Every combination of the attributes
LogindSessionsAt(k) ==
    { LogindSession(k, ty, ld, tc, di, un) :
         ty \in SessionTypes, ld \in {0, PidOf(k)}, tc \in TtyChoices(k),
         di \in DisplayChoices, un \in Usernames }

\* Sessions of one user with a live leader: every terminal and display
\* signal, of a terminal type or a graphical one
PlainSessionsAt(k) ==
    { LogindSession(k, ty, PidOf(k), tc, di, "auser") :
         ty \in {"tty", "wayland"}, tc \in TtyChoices(k), di \in DisplayChoices }

\* Signals of a second session: no terminal, or a terminal last used a minute
\* ago, right now or a minute ahead of the clock; no display, or a display
\* that is not idle
SecondTtyChoices ==
    {[tty |-> "", tty_stat |-> [atime |-> Now, mtime |-> Now]]} \cup
    {[tty |-> "pts", tty_stat |-> [atime |-> Now - d, mtime |-> Now - d]] :
        d \in {-SecondsPerMinute, 0, SecondsPerMinute}}
SecondDisplayChoices == {None, Some(0)}

\* Second sessions of one user with a live leader, of the given types
SecondSessionsAt(k, types) ==
    { LogindSession(k, ty, PidOf(k), tc, di, "auser") :
         ty \in types, tc \in SecondTtyChoices, di \in SecondDisplayChoices }

\* Sessions of every type, leader and user: with a terminal in use right now,
\* with a display that is not idle, or with neither
AnyKindSessionsAt(k) ==
    { LogindSession(k, ty, ld, tc, di, un) :
         ty \in SessionTypes, ld \in {0, PidOf(k)}, un \in Usernames,
         tc \in {[tty |-> "", tty_stat |-> [atime |-> Now, mtime |-> Now]]},
         di \in {None, Some(0)} }
    \cup
    { LogindSession(k, ty, ld, tc, None, un) :
         ty \in SessionTypes, ld \in {0, PidOf(k)}, un \in Usernames,
         tc \in {[tty |-> "pts", tty_stat |-> [atime |-> Now, mtime |-> Now]]} }

\* Sessions of terminal type with a live leader, a terminal and any signals
TerminalSessionsAt(k) ==
    { LogindSession(k, "tty", PidOf(k), [tty |-> "pts", tty_stat |-> st], di, "auser") :
         st \in TtyStats, di \in DisplayChoices }

\* Sessions with one signal only: a terminal idle for a minute, or a display
\* that is not idle
CoarseSessionsAt(k) ==
    { LogindSession(k, "tty", PidOf(k),
                    [tty |-> "pts", tty_stat |-> [atime |-> Now - SecondsPerMinute,
                                                  mtime |-> Now - SecondsPerMinute]],
                    None, "auser"),
      LogindSession(k, "tty", PidOf(k),
                    [tty |-> "", tty_stat |-> [atime |-> Now, mtime |-> Now]],
                    Some(0), "auser") }

\* Adapters that may raise SessionParseError for one session: getent (line
\* 103), ps (line 109), tty (line 134) and x11 (line 138)
ParseErrorStages == {"getent", "ps", "tty", "x11"}

\* A foreign process: it belongs to no session
ForeignPid == 999

\* Sessions with one signal and two processes in their scope, for which the
\* adapters named in stages ("" for none) raise SessionParseError
TwoProcessSessionsAt(k, stages) ==
    { [ls EXCEPT !.ps_table = <<PidOf(k), PidOf(k) + 1>>, !.parse_error = st] :
        ls \in CoarseSessionsAt(k), st \in stages }

\* Loopback connections among the processes of two such sessions: across the
\* sessions, to a socket shared by two processes, to a socket shared with a
\* foreign process, and from a socket shared by two processes into their own
\* session
TwoProcessConnections ==
    << [client |-> <<PidOf(1)>>, server |-> <<PidOf(2) + 1>>],
       [client |-> <<PidOf(2) + 1>>, server |-> <<PidOf(2), PidOf(2) + 1>>],
       [client |-> <<PidOf(1) + 1>>, server |-> <<ForeignPid, PidOf(1) + 1>>],
       [client |-> <<PidOf(1), PidOf(1) + 1>>, server |-> <<PidOf(1) + 1>>] >>

\* The connections of conns picked by mask, in their order
PickConnections(conns, mask) ==
    Flatten([c \in 1..Len(conns) |-> IF mask[c] THEN <<conns[c]>> ELSE <<>>])

\* ss.find_loopback_connections(): the connections of the client -> server
\* process pairs picked by mask among n sessions, listed client-major
Connections(n, mask) ==
    Flatten([c \in 1..n |-> Flatten([v \in 1..n |->
          IF mask[c][v]
          THEN << [client |-> <<PidOf(c)>>, server |-> <<PidOf(v)>>] >>
          ELSE <<>>])])

\* What get_all_sessions and find_loopback_connections may return together:
\* one session of any kind, tunneling to itself or not; a plain session and
\* a second session with any tunnels between the two; a terminal session
\* tunneling into a session of any kind; two sessions of two processes, some
\* of them failing to be parsed, with connections among their processes
Worlds ==
    { [logind |-> <<ls>>, conns |-> Connections(1, mask)] :
        ls \in LogindSessionsAt(1), mask \in [1..1 -> [1..1 -> BOOLEAN]] }
    \cup
    { [logind |-> <<la, lb>>, conns |-> Connections(2, mask)] :
        la \in PlainSessionsAt(1), lb \in SecondSessionsAt(2, {"tty", "wayland"}),
        mask \in { m \in [1..2 -> [1..2 -> BOOLEAN]] : ~m[1][1] /\ ~m[2][2] } }
    \cup
    { [logind |-> <<la, lb>>,
       conns |-> << [client |-> <<PidOf(1)>>, server |-> <<PidOf(2)>>] >>] :
        la \in TerminalSessionsAt(1), lb \in AnyKindSessionsAt(2) }
    \cup
    { [logind |-> <<la, lb>>, conns |-> PickConnections(TwoProcessConnections, mask)] :
        la \in TwoProcessSessionsAt(1, ParseErrorStages \cup {""}),
        lb \in TwoProcessSessionsAt(2, {"", "ps"}),
        mask \in [1..Len(TwoProcessConnections) -> BOOLEAN] }

---------------------------------------------------------------------------
(* main *)

Init ==
    /\ pc = "config"
    /\ dry_run = FALSE
    /\ timeout = 0
    /\ excluded_users = <<>>
    /\ now = 0
    /\ sessions = <<>>
    /\ idx = 0
    /\ killed = <<>>
    /\ evaluated = {}
    /\ stack = <<>>
    /\ ret = None
    /\ loads = 0
    /\ args = None
    /\ platform = None

\* Mutant: the command line alone decides
EffectiveDryRunFlagOnly(config_value, args_dry_run) == args_dry_run

\* Lines 383-384: the command line can set dry_run, never clear it
EffectiveDryRun(config_value, args_dry_run) ==
    IF args_dry_run THEN TRUE ELSE config_value

\* Lines 385-386: the command line can set verbose, never clear it
EffectiveVerbose(config_value, args_verbose) ==
    IF args_verbose THEN TRUE ELSE config_value

\* 'timeout': '15' (line 353)
DefaultTimeout == 15

\* 'excluded-users': '' (line 352), split and stripped by lines 372-375
DefaultExcludedUsers == <<"">>

\* _DEFAULT_CONFIG_FILE
DefaultConfigFile == "/etc/stop-idle-sessions.conf"

\* Values of args.config_file: the default, or a path given with -c
ConfigFiles == {DefaultConfigFile, "/root/custom.conf"}

\* Line 362: the OSError of open is raised again when this holds
RaisesOnOpenFailure(config_file) == config_file = DefaultConfigFile

\* Lines 346-389 when the configuration file is read: configuration file and
\* command line, the timeout of the configuration drawn from timeouts
Configure(timeouts) ==
    /\ pc = "config"
    /\ \E cfg_dry_run \in BOOLEAN, args_dry_run \in BOOLEAN,
          cfg_timeout \in timeouts, cfg_excluded \in ExcludedUserLists :
          /\ dry_run' = EffectiveDryRun(cfg_dry_run, args_dry_run)
          /\ timeout' = cfg_timeout
          /\ excluded_users' = cfg_excluded
    /\ pc' = "load"
    /\ UNCHANGED <<now, sessions, idx, killed, evaluated, stack, ret, loads, args, platform>>

\* Lines 391-392: now = datetime.datetime.now(); sessions = load_sessions(),
\* the clock showing clock and the adapters returning one of worlds
Load(clock, worlds) ==
    /\ pc = "load"
    /\ now' = clock
    /\ \E w \in worlds :
          /\ platform' = Some([logind |-> w.logind, conns |-> w.conns, stopped |-> {}])
          /\ sessions' = LoadSessionsResult(w.logind, w.conns)
    /\ loads' = loads + 1
    /\ idx' = 1
    /\ pc' = "loop"
    /\ UNCHANGED <<dry_run, timeout, excluded_users, killed, evaluated, stack, ret, args>>

MainConfigure == Configure(0..MaxTimeout)

\* Lines 356-367 when open raises OSError: the error is raised again (line
\* 367) or passed over, and then the defaults of lines 349-354 are in force
MainConfigFileUnreadable ==
    /\ pc = "config"
    /\ \E config_file \in ConfigFiles, args_dry_run \in BOOLEAN :
          /\ args' = Some([config_file |-> config_file, dry_run |-> args_dry_run])
          /\ IF RaisesOnOpenFailure(config_file)
             THEN /\ pc' = "failed"
                  /\ UNCHANGED <<dry_run, timeout, excluded_users>>
             ELSE /\ pc' = "load"
                  /\ dry_run' = EffectiveDryRun(FALSE, args_dry_run)
                  /\ timeout' = DefaultTimeout
                  /\ excluded_users' = DefaultExcludedUsers
    /\ UNCHANGED <<now, sessions, idx, killed, evaluated, stack, ret, loads, platform>>

\* Lines 391-392 and 85-91: get_all_sessions or find_loopback_connections
\* raises, load_sessions logs and raises the error again, main ends with it
MainLoadFails ==
    /\ pc = "load"
    /\ now' = Now
    /\ loads' = loads + 1
    /\ pc' = "failed"
    /\ UNCHANGED <<dry_run, timeout, excluded_users, sessions, idx, killed, evaluated,
                   stack, ret, args, platform>>

MainLoad == Load(Now, Worlds)

\* Line 401: idletime >= datetime.timedelta(seconds=60 * timeout)
Threshold(minutes) == SecondsPerMinute * minutes
\* Mutant: the comparison of line 401 is strict
IdleEnoughStrict(idletime, minutes) == idletime > Threshold(minutes)
IdleEnough(idletime, minutes) == idletime >= Threshold(minutes)

\* Lines 393-394: the session is skipped by the eligibility filter
MainSkip ==
    /\ pc = "loop"
    /\ idx <= Len(sessions)
    /\ SkipIneligibleSession(sessions[idx], Some(excluded_users))
    /\ idx' = idx + 1
    /\ UNCHANGED <<pc, dry_run, timeout, excluded_users, now, sessions, killed,
                   evaluated, stack, ret, loads, args, platform>>

\* Mutant: the dry-run test of line 412 is inverted
KilledAfterDryInverted(before, i, outcome, minutes, dry) ==
    IF ~outcome.raised /\ IdleEnough(outcome.idle, minutes) /\ dry
    THEN Append(before, i)
    ELSE before

\* Mutant: kill_session_leader is called twice on the session
KilledAfterTwice(before, i, outcome, minutes, dry) ==
    IF ~outcome.raised /\ IdleEnough(outcome.idle, minutes) /\ ~dry
    THEN Append(Append(before, i), i)
    ELSE before

\* Lines 412-413: the kill_session_leader calls after handling position i
KilledAfter(before, i, outcome, minutes, dry) ==
    IF ~outcome.raised /\ IdleEnough(outcome.idle, minutes) /\ ~dry
    THEN Append(before, i)
    ELSE before

\* Line 413, kill_session_leader: the leader process of the session is
\* stopped
KillSessionLeader(host, session) ==
    [host EXCEPT !.stopped = @ \cup {session.leader}]

\* Lines 412-413: the host after handling the session at position i
PlatformAfter(host, ss, i, outcome, minutes, dry) ==
    IF KilledAfter(<<>>, i, outcome, minutes, dry) # <<>>
    THEN Some(KillSessionLeader(Val(host), ss[i]))
    ELSE host

\* Lines 394-421: the session is eligible, evaluated and possibly stopped
MainEnforce ==
    /\ pc = "loop"
    /\ idx <= Len(sessions)
    /\ ~SkipIneligibleSession(sessions[idx], Some(excluded_users))
    /\ LET outcome == ComputeIdlenessMetric(sessions, idx, now, FALSE) IN
          /\ ret' = Some(outcome)
          /\ killed' = KilledAfter(killed, idx, outcome, timeout, dry_run)
          /\ platform' = PlatformAfter(platform, sessions, idx, outcome, timeout, dry_run)
    /\ evaluated' = evaluated \cup CallsOf(sessions, idx)
    /\ idx' = idx + 1
    /\ UNCHANGED <<pc, dry_run, timeout, excluded_users, now, sessions, stack, loads,
                   args>>

\* Lines 423-425: after the loop main calls load_sessions() once more and
\* drops what it returns
MainFinish ==
    /\ pc = "loop"
    /\ idx > Len(sessions)
    /\ loads' = loads + 1
    /\ pc' = "done"
    /\ UNCHANGED <<dry_run, timeout, excluded_users, now, sessions, idx, killed,
                   evaluated, stack, ret, args, platform>>

\* Lines 425 and 85-91: the call of load_sessions after the loop raises the
\* error of get_all_sessions or find_loopback_connections, main ends with it
MainFinishFails ==
    /\ pc = "loop"
    /\ idx > Len(sessions)
    /\ loads' = loads + 1
    /\ pc' = "failed"
    /\ UNCHANGED <<dry_run, timeout, excluded_users, now, sessions, idx, killed,
                   evaluated, stack, ret, args, platform>>

Next ==
    \/ MainConfigure \/ MainConfigFileUnreadable
    \/ MainLoad \/ MainLoadFails
    \/ MainSkip \/ MainEnforce
    \/ MainFinish \/ MainFinishFails

Spec == Init /\ [][Next]_vars

---------------------------------------------------------------------------
(* main on the sessions 14, 7 and c1 of tests/test_scenario2.py: session 14 *)
(* has a loopback connection (port 5901) into the Xvnc of session 7         *)

\* Ten hours, the idle time of the login screen c1, in seconds
ScenarioNow == 10 * 60 * 60

\* Idle times in seconds: 0, 2, 15 and 30 minutes
ScenarioIdles == {0, 120, 900, 1800}

ScenarioStat(idle) == [atime |-> ScenarioNow - idle, mtime |-> ScenarioNow - idle]

\* Session 14 idle for 30 minutes, session 7 with any idle time of its
\* terminal and of its display, or without display
ScenarioWorlds ==
    { [logind |->
         << [session_id |-> "14", session_type |-> "tty", leader |-> 20982,
             tty |-> "pts/3", tty_stat |-> ScenarioStat(1800),
             display_idle |-> None, username |-> "auser",
             ps_table |-> <<20982, 20985, 20986>>, parse_error |-> ""],
            [session_id |-> "7", session_type |-> "tty", leader |-> 13268,
             tty |-> "pts/1", tty_stat |-> ScenarioStat(tty_idle),
             display_idle |-> di, username |-> "auser",
             ps_table |-> <<13268, 13271, 20272>>, parse_error |-> ""],
            [session_id |-> "c1", session_type |-> "wayland", leader |-> 13679,
             tty |-> "tty1", tty_stat |-> ScenarioStat(ScenarioNow),
             display_idle |-> None, username |-> "gdm",
             ps_table |-> <<13679>>, parse_error |-> ""] >>,
       conns |-> << [client |-> <<20985>>, server |-> <<20272>>] >>] :
        tty_idle \in ScenarioIdles,
        di \in {None} \cup {Some(d) : d \in ScenarioIdles} }

ScenarioConfigure == Configure({0, DefaultTimeout})

ScenarioLoad == Load(ScenarioNow, ScenarioWorlds)

NextScenario ==
    ScenarioConfigure \/ ScenarioLoad \/ MainSkip \/ MainEnforce \/ MainFinish

SpecScenario == Init /\ [][NextScenario]_vars

---------------------------------------------------------------------------
(* Lines 369-389 of main on their own: the booleans of the configuration *)
(* and of the command line                                                *)

\* Values of the dry-run and verbose keys of the configuration file
ConfigWords == {"yes", "no", "true", "false", "on", "off", "1", "0", "YES", "maybe"}

\* configparser compares the lower-cased value
Lower(word) == IF word = "YES" THEN "yes" ELSE word

\* ConfigParser.BOOLEAN_STATES
BooleanStates ==
    [w \in {"1", "yes", "true", "on", "0", "no", "false", "off"} |->
        w \in {"1", "yes", "true", "on"}]

\* Lines 370-371: config.getboolean raises ValueError for this value
NotABoolean(word) == Lower(word) \notin DOMAIN BooleanStates

\* Lines 370-371: config.getboolean
GetBoolean(word) == BooleanStates[Lower(word)]

InitConfig ==
    /\ pc = "parse"
    /\ args \in { Some(a) : a \in [cfg_dry_run : ConfigWords, cfg_verbose : ConfigWords,
                                     dry_run : BOOLEAN, verbose : BOOLEAN] }
    /\ dry_run = FALSE
    /\ timeout = 0
    /\ excluded_users = <<>>
    /\ now = 0
    /\ sessions = <<>>
    /\ idx = 0
    /\ killed = <<>>
    /\ evaluated = {}
    /\ stack = <<>>
    /\ ret = None
    /\ loads = 0
    /\ platform = None

\* Lines 369-389: both values are booleans; the flags are applied and the
\* logger is set to DEBUG when verbose holds
ConfigParse ==
    /\ pc = "parse"
    /\ ~NotABoolean(Val(args).cfg_dry_run) /\ ~NotABoolean(Val(args).cfg_verbose)
    /\ LET verbose == EffectiveVerbose(GetBoolean(Val(args).cfg_verbose),
                                       Val(args).verbose)
       IN /\ dry_run' = EffectiveDryRun(GetBoolean(Val(args).cfg_dry_run),
                                        Val(args).dry_run)
          /\ ret' = Some([verbose |-> verbose,
                          level |-> IF verbose THEN "DEBUG" ELSE "NOTSET"])
    /\ pc' = "parsed"
    /\ UNCHANGED <<timeout, excluded_users, now, sessions, idx, killed, evaluated,
                   stack, loads, args, platform>>

\* Lines 376-379: a value is not a boolean, the ValueError is logged and
\* raised again
ConfigParseFails ==
    /\ pc = "parse"
    /\ NotABoolean(Val(args).cfg_dry_run) \/ NotABoolean(Val(args).cfg_verbose)
    /\ pc' = "failed"
    /\ UNCHANGED <<dry_run, timeout, excluded_users, now, sessions, idx, killed,
                   evaluated, stack, ret, loads, args, platform>>

NextConfig == ConfigParse \/ ConfigParseFails

SpecConfig == InitConfig /\ [][NextConfig]_vars

---------------------------------------------------------------------------
(* ss.find_loopback_connections on its own: from the socket table to the   *)
(* loopback connections                                                    *)

\* Rows of established connections in one socket table
MaxRows == 2

\* Addresses and ports of the sockets of tests/test_scenario1.py
SsAddresses == {"127.0.0.1", "127.0.0.2", "10.0.0.169"}
SsPorts == {5901, 49688}

\* 127.0.0.0/8 or ::1
IsLoopback(addr) == addr \in {"127.0.0.1", "127.0.0.2", "::1"}

\* A socket with the processes holding it: Xvnc on the port of the display,
\* sshd on the other
SsSocket(addr, port) ==
    [addr |-> addr, port |-> port,
     processes |-> IF port = 5901 THEN <<PidOf(2)>> ELSE <<PidOf(1)>>]

SsSockets == { SsSocket(addr, port) : addr \in SsAddresses, port \in SsPorts }

\* An established row: the local socket and the peer socket
SsRows ==
    { row \in [local : SsSockets, peer : SsSockets] : row.local # row.peer }

\* Socket tables: the listening ports and up to MaxRows established rows
SsSnapshots ==
    { [listening_ports |-> lp, established |-> est] :
        lp \in SUBSET SsPorts,
        est \in UNION { [1..n -> SsRows] : n \in 0..MaxRows } }

\* Sockets are equal by address and port
SameSocket(a, b) == a.addr = b.addr /\ a.port = b.port

\* Mutant: the local socket of a row is taken for the client
ClassifyLocalAsClient(row, listening_ports) ==
    IF ~(IsLoopback(row.local.addr) /\ IsLoopback(row.peer.addr)) THEN <<>>
    ELSE IF (row.local.port \in listening_ports) # (row.peer.port \in listening_ports)
    THEN << [client |-> row.local, server |-> row.peer] >>
    ELSE <<>>

\* One established row: no connection unless both ends are loopback and
\* exactly one port is listening; the listening side is the server
Classify(row, listening_ports) ==
    IF ~(IsLoopback(row.local.addr) /\ IsLoopback(row.peer.addr)) THEN <<>>
    ELSE IF row.local.port \in listening_ports /\ row.peer.port \notin listening_ports
    THEN << [client |-> row.peer, server |-> row.local] >>
    ELSE IF row.peer.port \in listening_ports /\ row.local.port \notin listening_ports
    THEN << [client |-> row.local, server |-> row.peer] >>
    ELSE <<>>

\* The connections of a list, each pair of sockets once: the two rows of one
\* TCP connection give the same pair
RECURSIVE OncePerPair(_, _)
OncePerPair(conns, acc) ==
    IF conns = <<>> THEN acc
    ELSE OncePerPair(Tail(conns),
             IF \E n \in 1..Len(acc) :
                    /\ SameSocket(acc[n].client, Head(conns).client)
                    /\ SameSocket(acc[n].server, Head(conns).server)
             THEN acc ELSE Append(acc, Head(conns)))

\* find_loopback_connections
FindLoopbackConnections(snapshot) ==
    OncePerPair(Flatten([r \in 1..Len(snapshot.established) |->
                            Classify(snapshot.established[r], snapshot.listening_ports)]),
                <<>>)

InitSs ==
    /\ pc = "snapshot"
    /\ args \in { Some(snapshot) : snapshot \in SsSnapshots }
    /\ dry_run = FALSE
    /\ timeout = 0
    /\ excluded_users = <<>>
    /\ now = 0
    /\ sessions = <<>>
    /\ idx = 0
    /\ killed = <<>>
    /\ evaluated = {}
    /\ stack = <<>>
    /\ ret = None
    /\ loads = 0
    /\ platform = None

\* find_loopback_connections returns
SsFind ==
    /\ pc = "snapshot"
    /\ ret' = Some(FindLoopbackConnections(Val(args)))
    /\ pc' = "resolved"
    /\ UNCHANGED <<dry_run, timeout, excluded_users, now, sessions, idx, killed,
                   evaluated, stack, loads, args, platform>>

NextSs == SsFind

SpecSs == InitSs /\ [][NextSs]_vars

---------------------------------------------------------------------------
(* skip_ineligible_session applied on its own *)

\* Sessions handed to the filter: every type, leader, user and terminal
FilterSessions ==
    { BuildSession(LogindSession(1, ty, ld, tc, None, un), <<>>) :
        ty \in SessionTypes \cup {"unspecified"}, ld \in {0, PidOf(1)},
        tc \in {[tty |-> "", tty_stat |-> [atime |-> Now, mtime |-> Now]],
                [tty |-> "pts", tty_stat |-> [atime |-> Now, mtime |-> Now]]},
        un \in Usernames }

\* The excluded_users argument: absent, or a list
FilterExcluded ==
    {None, Some(<<>>), Some(<<"">>), Some(<<"ansible">>), Some(<<"root", "auser">>)}

InitFilter ==
    /\ pc = "filter"
    /\ args \in { Some([session |-> fs, excluded_users |-> ex]) :
                    fs \in FilterSessions, ex \in FilterExcluded }
    /\ dry_run = FALSE
    /\ timeout = 0
    /\ excluded_users = <<>>
    /\ now = 0
    /\ sessions = <<>>
    /\ idx = 0
    /\ killed = <<>>
    /\ evaluated = {}
    /\ stack = <<>>
    /\ ret = None
    /\ loads = 0
    /\ platform = None

FilterApply ==
    /\ pc = "filter"
    /\ ret' = Some(SkipIneligibleSession(Val(args).session, Val(args).excluded_users))
    /\ pc' = "filtered"
    /\ UNCHANGED <<dry_run, timeout, excluded_users, now, sessions, idx, killed,
                   evaluated, stack, loads, args, platform>>

NextFilter == FilterApply

SpecFilter == InitFilter /\ [][NextFilter]_vars

---------------------------------------------------------------------------
(* compute_idleness_metric run step by step, with its call stack *)

\* Sessions with every terminal and display signal; a filter is not applied
EvalSessionsAt(k) ==
    { LogindSession(k, "tty", PidOf(k), tc, di, "auser") :
         tc \in TtyChoices(k), di \in DisplayChoices }

\* Every tunnel graph, self-loops and cycles included, over a session with
\* any signals and a second session, and over three sessions with one signal
\* each
EvalWorlds ==
    { LoadSessionsResult(<<la, lb>>, Connections(2, mask)) :
        la \in EvalSessionsAt(1), lb \in SecondSessionsAt(2, {"tty"}),
        mask \in [1..2 -> [1..2 -> BOOLEAN]] }
    \cup
    { LoadSessionsResult(<<la, lb, lc>>, Connections(3, mask)) :
        la \in CoarseSessionsAt(1), lb \in CoarseSessionsAt(2),
        lc \in CoarseSessionsAt(3), mask \in [1..3 -> [1..3 -> BOOLEAN]] }

InitEval ==
    /\ pc = "eval"
    /\ sessions \in EvalWorlds
    /\ now = Now
    /\ dry_run = FALSE
    /\ timeout = 0
    /\ excluded_users = <<>>
    /\ idx = 0
    /\ killed = <<>>
    /\ evaluated = {}
    /\ stack = <<>>
    /\ ret = None
    /\ loads = 0
    /\ args = None
    /\ platform = None

\* Line 263-264 on entry of a call
Frame(i, nested) ==
    [session |-> i, nested |-> nested, m |-> NoMinimum, phase |-> "own", pos |-> 1]

Top == stack[Len(stack)]
ReplaceTop(f) == [stack EXCEPT ![Len(stack)] = f]

\* A caller invokes compute_idleness_metric(session, now, nested)
EvalCall ==
    /\ pc = "eval"
    /\ \E i \in 1..Len(sessions), nested \in BOOLEAN :
          /\ stack' = <<Frame(i, nested)>>
          /\ args' = Some([session |-> i, nested |-> nested])
          /\ evaluated' = {<<i, nested>>}
    /\ pc' = "running"
    /\ UNCHANGED <<dry_run, timeout, excluded_users, now, sessions, idx, killed,
                   ret, loads, platform>>

\* Lines 263-294: the own signals, then the test of nested
EvalOwnSignals ==
    /\ pc = "running"
    /\ Top.phase = "own"
    /\ stack' = ReplaceTop([Top EXCEPT
                    !.m = OwnSignals(sessions[Top.session], now),
                    !.phase = IF EntersTunnels(Top.nested) THEN "tunnels" ELSE "finish"])
    /\ UNCHANGED <<pc, dry_run, timeout, excluded_users, now, sessions, idx, killed,
                   evaluated, ret, loads, args, platform>>

\* Lines 295-301: the recursive call for the next tunneled session
EvalRecurse ==
    /\ pc = "running"
    /\ Top.phase = "tunnels"
    /\ Top.pos <= Len(TunnelList(sessions[Top.session]))
    /\ LET inner == TunnelList(sessions[Top.session])[Top.pos] IN
          /\ stack' = Append(stack, Frame(inner, NestedArgument))
          /\ evaluated' = evaluated \cup {<<inner, NestedArgument>>}
    /\ UNCHANGED <<pc, dry_run, timeout, excluded_users, now, sessions, idx, killed,
                   ret, loads, args, platform>>

\* Lines 295-296: the loops over the tunneled sessions are exhausted
EvalTunnelsDone ==
    /\ pc = "running"
    /\ Top.phase = "tunnels"
    /\ Top.pos > Len(TunnelList(sessions[Top.session]))
    /\ stack' = ReplaceTop([Top EXCEPT !.phase = "finish"])
    /\ UNCHANGED <<pc, dry_run, timeout, excluded_users, now, sessions, idx, killed,
                   evaluated, ret, loads, args, platform>>

\* Lines 310-318 in a nested call, then lines 302-308 in its caller
EvalReturnInner ==
    /\ pc = "running"
    /\ Top.phase = "finish"
    /\ Len(stack) > 1
    /\ LET caller == stack[Len(stack) - 1] IN
          stack' = [SubSeq(stack, 1, Len(stack) - 1) EXCEPT ![Len(stack) - 1] =
                       [caller EXCEPT
                           !.m = AfterInner(sessions, Top.session, Outcome(Top.m), caller.m),
                           !.pos = caller.pos + 1]]
    /\ UNCHANGED <<pc, dry_run, timeout, excluded_users, now, sessions, idx, killed,
                   evaluated, ret, loads, args, platform>>

\* Lines 310-318 in the outermost call
EvalReturnOuter ==
    /\ pc = "running"
    /\ Top.phase = "finish"
    /\ Len(stack) = 1
    /\ ret' = Some(Outcome(Top.m))
    /\ stack' = <<>>
    /\ pc' = "returned"
    /\ UNCHANGED <<dry_run, timeout, excluded_users, now, sessions, idx, killed,
                   evaluated, loads, args, platform>>

NextEval ==
    \/ EvalCall \/ EvalOwnSignals \/ EvalRecurse \/ EvalTunnelsDone
    \/ EvalReturnInner \/ EvalReturnOuter

SpecEval == InitEval /\ [][NextEval]_vars

\* The interpreter runs the next statement of the single thread
SpecEvalFair == SpecEval /\ WF_vars(NextEval)

---------------------------------------------------------------------------
(* Properties of one pass of main *)

\* Position i has been handled by the loop of lines 393-421
Handled(i) == pc \in {"loop", "done", "failed"} /\ i \in 1..Len(sessions) /\ i < idx
Terminated(i) == InSeq(i, killed)
PassesFilter(i) == ~SkipIneligibleSession(sessions[i], Some(excluded_users))
IsGraphical(i) == sessions[i].session_type \in GraphicalTypes
\* The positions listed in the tunneled_sessions of the processes of i
BackendsOf(k, i) ==
    { sessions[i].processes[k].tunneled_sessions[t] :
        t \in 1..Len(sessions[i].processes[k].tunneled_sessions) }
AllBackends(i) ==
    UNION { BackendsOf(k, i) : k \in 1..Len(sessions[i].processes) }

\* The durations of the own signals of a session
OwnCandidates(s) ==
    (IF IsNone(s.tty) THEN {} ELSE {now - Val(s.tty).atime, now - Val(s.tty).mtime})
    \cup (IF IsNone(s.display_idle) THEN {} ELSE {Val(s.display_idle)})

Minimum(S) == CHOOSE x \in S : \A y \in S : x <= y

\* C1: with dry-run off, a handled session has had kill_session_leader called
\* on it exactly when it passes the eligibility filter and
\* compute_idleness_metric returns a duration of at least 60 * timeout seconds
C1_TerminatedIffEligibleAndIdle ==
    ~dry_run =>
        \A i \in 1..Len(sessions) :
            Handled(i) =>
                LET outcome == ComputeIdlenessMetric(sessions, i, now, FALSE) IN
                Terminated(i) <=>
                    /\ PassesFilter(i)
                    /\ ~outcome.raised
                    /\ outcome.idle >= 60 * timeout

\* A finished pass over two sessions that stopped one and spared the other,
\* both eligible
C1_Witness ==
    /\ pc = "done" /\ ~dry_run /\ Len(sessions) = 2
    /\ PassesFilter(1) /\ PassesFilter(2)
    /\ \E i, j \in 1..2 : Terminated(i) /\ ~Terminated(j)

\* Some own signal of the session is younger than the threshold thr
YoungOwnSignal(s, thr) ==
    \/ ~IsNone(s.tty) /\ now - Val(s.tty).atime < thr
    \/ ~IsNone(s.tty) /\ now - Val(s.tty).mtime < thr
    \/ ~IsNone(s.display_idle) /\ Val(s.display_idle) < thr

\* C2: an eligible session with an own signal, or a tunneled session's own
\* signal, younger than a positive threshold is not terminated
C2_ActivityPreventsTermination ==
    \A i \in 1..Len(sessions) :
        ( /\ Handled(i) /\ PassesFilter(i) /\ timeout > 0
          /\ \/ YoungOwnSignal(sessions[i], 60 * timeout)
             \/ \E b \in AllBackends(i) : YoungOwnSignal(sessions[b], 60 * timeout) )
        => ~Terminated(i)

\* An eligible session, all of whose own signals are old, is spared with
\* dry-run off because the display of its tunnel backend is young
C2_Witness ==
    /\ pc = "done" /\ ~dry_run /\ timeout > 0 /\ Len(sessions) = 2
    /\ PassesFilter(1)
    /\ ~YoungOwnSignal(sessions[1], 60 * timeout)
    /\ AllBackends(1) = {2}
    /\ IsNone(sessions[2].tty)
    /\ ~IsNone(sessions[2].display_idle)
    /\ Val(sessions[2].display_idle) < 60 * timeout
    /\ ~Terminated(1)

\* C4: kill_session_leader is never called on a session whose leader is 0
C4_LingeringNeverTerminated ==
    \A n \in 1..Len(killed) : sessions[killed[n]].leader # 0

\* A handled lingering session that meets every other condition of
\* termination: terminal type, terminal present and old, user not excluded
C4_Witness ==
    /\ pc = "done" /\ ~dry_run
    /\ \E i \in 1..Len(sessions) :
          /\ sessions[i].leader = 0
          /\ sessions[i].session_type = "tty"
          /\ ~IsNone(sessions[i].tty)
          /\ ~InSeq(sessions[i].username, excluded_users)
          /\ ~ComputeIdlenessMetric(sessions, i, now, FALSE).raised
          /\ ComputeIdlenessMetric(sessions, i, now, FALSE).idle >= 60 * timeout
          /\ AllBackends(i) # {}

\* C5 as stated: a graphical session is skipped, compute_idleness_metric is
\* never invoked on it, and it is never terminated
C5_GraphicalNeverEvaluated ==
    \A i \in 1..Len(sessions) :
        IsGraphical(i) =>
            /\ ~PassesFilter(i)
            /\ \A c \in evaluated : c[1] # i
            /\ ~Terminated(i)

\* C5 amended: a graphical session is skipped, never evaluated by a top-level
\* call and never terminated; compute_idleness_metric is invoked on it only
\* with nested=True, for a handled eligible session that tunnels into it
C5_GraphicalOnlyEvaluatedNested ==
    \A i \in 1..Len(sessions) :
        IsGraphical(i) =>
            /\ ~PassesFilter(i)
            /\ <<i, FALSE>> \notin evaluated
            /\ ~Terminated(i)
            /\ <<i, TRUE>> \in evaluated =>
                  \E j \in 1..Len(sessions) :
                      Handled(j) /\ PassesFilter(j) /\ i \in AllBackends(j)

\* A finished pass in which a graphical session was handled, and evaluated
\* only as the tunnel backend of another session
C5_Witness ==
    /\ pc = "done"
    /\ \E i \in 1..Len(sessions) :
          /\ IsGraphical(i)
          /\ <<i, TRUE>> \in evaluated
          /\ <<i, FALSE>> \notin evaluated

\* No terminal timestamp of the session lies after now
NoFutureStamp(s) ==
    IsNone(s.tty) \/ (Val(s.tty).atime <= now /\ Val(s.tty).mtime <= now)

\* C8 as stated: with timeout 0 and dry-run off every handled eligible
\* session is terminated
C8_ZeroTimeoutTerminatesAll ==
    (timeout = 0 /\ ~dry_run) =>
        \A i \in 1..Len(sessions) :
            (Handled(i) /\ PassesFilter(i)) => Terminated(i)

\* C8 amended: with timeout 0 and dry-run off a handled eligible session is
\* terminated provided no terminal timestamp of it or of its tunnel backends
\* lies after now
C8_ZeroTimeoutTerminatesUnlessFuture ==
    (timeout = 0 /\ ~dry_run) =>
        \A i \in 1..Len(sessions) :
            ( /\ Handled(i) /\ PassesFilter(i)
              /\ NoFutureStamp(sessions[i])
              /\ \A b \in AllBackends(i) : NoFutureStamp(sessions[b]) )
            => Terminated(i)

\* With timeout 0 an eligible session active this very second (idle 0) that
\* tunnels into another session has been terminated
C8_Witness ==
    /\ pc = "done" /\ timeout = 0 /\ ~dry_run
    /\ \E i \in 1..Len(sessions) :
          /\ PassesFilter(i) /\ Terminated(i)
          /\ Val(sessions[i].tty).atime = now
          /\ AllBackends(i) # {}

\* C9: a session whose terminal is present with atime later than now gets a
\* non-positive duration from compute_idleness_metric and, for a positive
\* timeout, is not terminated
C9_ClockSkewNotTerminated ==
    \A i \in 1..Len(sessions) :
        (pc \in {"loop", "done"} /\ ~IsNone(sessions[i].tty)
            /\ Val(sessions[i].tty).atime > now) =>
            /\ \A nested \in BOOLEAN :
                  LET outcome == ComputeIdlenessMetric(sessions, i, now, nested) IN
                  ~outcome.raised /\ outcome.idle <= 0
            /\ (Handled(i) /\ timeout > 0) => ~Terminated(i)

\* An eligible session with atime in the future and every other signal old
\* has been handled under a positive timeout with dry-run off
C9_Witness ==
    /\ pc = "done" /\ timeout > 0 /\ ~dry_run
    /\ \E i \in 1..Len(sessions) :
          /\ PassesFilter(i)
          /\ Val(sessions[i].tty).atime > now
          /\ now - Val(sessions[i].tty).mtime >= 60 * timeout
          /\ ~IsNone(sessions[i].display_idle)
          /\ Val(sessions[i].display_idle) >= 60 * timeout
          /\ ~Terminated(i)

\* C13: every own signal of a tunneled session that the eligibility filter
\* skips (graphical type, no tty, excluded user or leader 0) bounds the
\* idleness of the eligible session tunneling into it, and such a signal
\* younger than the threshold keeps the outer session from being terminated
C13_IneligibleBackendStillCounts ==
    \A i \in 1..Len(sessions) :
        (Handled(i) /\ PassesFilter(i)) =>
            \A b \in AllBackends(i) :
                ~PassesFilter(b) =>
                    \A d \in OwnCandidates(sessions[b]) :
                        LET outcome == ComputeIdlenessMetric(sessions, i, now, FALSE) IN
                        /\ ~outcome.raised
                        /\ outcome.idle <= d
                        /\ d < 60 * timeout => ~Terminated(i)

\* An eligible session whose own signals are all old was spared with dry-run
\* off because of the display of its tunnel backend: an x11 session of an
\* excluded user with leader 0
C13_Witness ==
    /\ pc = "done" /\ ~dry_run /\ timeout > 0 /\ Len(sessions) = 2
    /\ PassesFilter(1)
    /\ ~YoungOwnSignal(sessions[1], 60 * timeout)
    /\ AllBackends(1) = {2}
    /\ sessions[2].session_type = "x11"
    /\ sessions[2].leader = 0
    /\ InSeq(sessions[2].username, excluded_users)
    /\ sessions[2].display_idle = Some(0)
    /\ ~Terminated(1)

\* C16: with dry_run set, kill_session_leader is called on no session, and no
\* step changes the host (terminal times, sessions, processes) or the list of
\* sessions once they are loaded
C16_DryRunChangesNothing ==
    /\ [](dry_run => killed = <<>>)
    /\ [][(dry_run /\ platform # None) =>
            (platform' = platform /\ sessions' = sessions)]_vars

\* A dry run has finished in which an eligible session was idle for at least
\* the timeout, and its leader is still among the processes of its scope
C16_Witness ==
    /\ pc = "done" /\ dry_run /\ killed = <<>>
    /\ \E i \in 1..Len(sessions) :
          /\ PassesFilter(i)
          /\ ~ComputeIdlenessMetric(sessions, i, now, FALSE).raised
          /\ ComputeIdlenessMetric(sessions, i, now, FALSE).idle >= 60 * timeout
          /\ sessions[i].leader \notin Val(platform).stopped

\* The sessions are loaded
Loaded == pc \in {"loop", "done"}

\* The pids of the processes of the session at position i
PidsOf(i) == { sessions[i].processes[k].pid : k \in 1..Len(sessions[i].processes) }

\* The pids listed in the tunneled_processes of process k of session a
TunneledPidsOf(k, a) ==
    { sessions[a].processes[k].tunneled_processes[t] :
        t \in 1..Len(sessions[a].processes[k].tunneled_processes) }

\* C17: after load_sessions, a session T is in the tunneled_sessions of a
\* process p exactly when a process of T has the pid of a process listed in
\* the tunneled_processes of p
C17_TunnelResolutionSoundAndComplete ==
    Loaded =>
        \A a \in 1..Len(sessions) : \A k \in 1..Len(sessions[a].processes) :
            \A T \in 1..Len(sessions) :
                T \in BackendsOf(k, a) <=> PidsOf(T) \cap TunneledPidsOf(k, a) # {}

\* Two sessions of two processes are loaded: the first process of the first
\* tunnels into both sessions, its second process to itself and to a foreign
\* process, the second process of the second session to both processes of
\* its own session
C17_Witness ==
    /\ Loaded /\ Len(sessions) = 2
    /\ Len(sessions[1].processes) = 2 /\ Len(sessions[2].processes) = 2
    /\ BackendsOf(1, 1) = {1, 2}
    /\ TunneledPidsOf(2, 1) = {ForeignPid, PidOf(1) + 1} /\ BackendsOf(2, 1) = {1}
    /\ sessions[2].processes[2].tunneled_sessions = <<2, 2>>

\* The logind sessions of the host for which no adapter raises
ParsedLogind == SelectSeq(Val(platform).logind, LAMBDA ls : ~RaisesParseError(ls))

\* What load_sessions returns on a host without the sessions that fail
AsIfAbsent == LoadSessionsResult(ParsedLogind, Val(platform).conns)

\* C18: the list of sessions holds no session for which an adapter raised
\* SessionParseError and is the list load_sessions returns on a host without
\* those sessions; each of its sessions is handled, and with dry-run off it is
\* terminated exactly when, on that host, it passes the filter and is idle
\* for at least the timeout
C18_ParseErrorsIsolated ==
    Loaded =>
        /\ \A k \in 1..Len(Val(platform).logind) :
              RaisesParseError(Val(platform).logind[k]) =>
                  \A i \in 1..Len(sessions) :
                      sessions[i].session_id # Val(platform).logind[k].session_id
        /\ sessions = AsIfAbsent
        /\ (pc = "done" /\ ~dry_run) =>
              \A i \in 1..Len(sessions) :
                  LET outcome == ComputeIdlenessMetric(sessions, i, now, FALSE) IN
                  /\ Handled(i)
                  /\ Terminated(i) <=>
                        /\ ~SkipIneligibleSession(sessions[i], Some(excluded_users))
                        /\ ~outcome.raised
                        /\ IdleEnough(outcome.idle, timeout)

\* The first session of the host could not be parsed; the second, idle and
\* connected into the first, is the only one in the list and was terminated
C18_Witness ==
    /\ pc = "done" /\ ~dry_run /\ timeout > 0
    /\ Len(Val(platform).logind) = 2
    /\ RaisesParseError(Val(platform).logind[1])
    /\ Len(sessions) = 1
    /\ sessions[1].session_id = Val(platform).logind[2].session_id
    /\ Terminated(1)

\* C19 as stated: in an invocation that has ended with the error of session
\* enumeration or of the socket table, raised again by load_sessions, no
\* session leader has been terminated
C19_NoTerminationWhenLoadFails ==
    (pc = "failed" /\ loads > 0) => killed = <<>>

\* The first call of load_sessions has failed: main has ended at once,
\* without a list of sessions
C19_Witness ==
    pc = "failed" /\ loads = 1 /\ sessions = <<>> /\ killed = <<>>

\* main could not open its configuration file
OpenFailed == pc # "config" /\ args # None

\* C20 as stated: when the configuration file cannot be opened, main goes on
\* with the built-in defaults if the path is the default one, and ends with
\* the error, before any pass, if the path was given with -c and differs
C20_DefaultIgnoredExplicitFatal ==
    OpenFailed =>
        IF Val(args).config_file = DefaultConfigFile
        THEN /\ ~(pc = "failed" /\ loads = 0)
             /\ timeout = DefaultTimeout
             /\ excluded_users = DefaultExcludedUsers
             /\ dry_run = Val(args).dry_run
        ELSE pc = "failed" /\ loads = 0

\* C21 as stated: one invocation of main builds the session graph once; the
\* platform adapters are queried by one call of load_sessions and not again
\* before main returns
C21_SessionGraphBuiltOnce ==
    loads <= 1

\* main has returned after a pass over two sessions
C21_Witness ==
    pc = "done" /\ Len(sessions) = 2 /\ idx > Len(sessions)

\* C28: compute_idleness_metric returns a duration, never the error of lines
\* 310-312, for every session that passes the eligibility filter; what main
\* has got back from it at line 400 is a duration
C28_EligibleNeverRaises ==
    /\ \A i \in 1..Len(sessions) :
          (Handled(i) /\ PassesFilter(i)) =>
              /\ ~IsNone(sessions[i].tty)
              /\ ~ComputeIdlenessMetric(sessions, i, now, FALSE).raised
    /\ (pc \in {"loop", "done", "failed"} /\ ret # None) => ~Val(ret).raised

\* An eligible session without a display has been handled; it tunnels into
\* a session for which the evaluator raises the error
C28_Witness ==
    \E i \in 1..Len(sessions) :
        /\ Handled(i) /\ PassesFilter(i) /\ ret # None
        /\ IsNone(sessions[i].display_idle)
        /\ \E b \in AllBackends(i) :
              ComputeIdlenessMetric(sessions, b, now, TRUE).raised

\* The elements of a list
Range(s) == { s[i] : i \in 1..Len(s) }

\* The connections find_loopback_connections returned whose client side
\* holds the process pid
ConnectionsFrom(pid) ==
    { c \in 1..Len(Val(platform).conns) : pid \in Range(Val(platform).conns[c].client) }

\* C26: the tunneled_processes of every SessionProcess built by load_sessions
\* are exactly the server-side processes of the loopback connections whose
\* client side holds the pid of the process, each listed once
C26_TunneledProcessesExactAndDistinct ==
    Loaded =>
        \A a \in 1..Len(sessions) : \A k \in 1..Len(sessions[a].processes) :
            LET process == sessions[a].processes[k] IN
            /\ TunneledPidsOf(k, a) =
                   UNION { Range(Val(platform).conns[c].server) :
                             c \in ConnectionsFrom(process.pid) }
            /\ Len(process.tunneled_processes) = Cardinality(TunneledPidsOf(k, a))

\* A process is the client of two connections that share a server process
\* and have two server processes between them
C26_Witness ==
    /\ Loaded
    /\ \E a \in 1..Len(sessions) : \E k \in 1..Len(sessions[a].processes) :
          /\ Len(sessions[a].processes[k].tunneled_processes) = 2
          /\ \E c, d \in ConnectionsFrom(sessions[a].processes[k].pid) :
                /\ c # d
                /\ Range(Val(platform).conns[c].server)
                     \cap Range(Val(platform).conns[d].server) # {}

\* C30: in one invocation kill_session_leader is called at most once for
\* each produced session, only on sessions the loop has handled, and only
\* after the first call of load_sessions has returned the list
C30_KillOncePerSessionAfterLoad ==
    /\ Cardinality(Range(killed)) = Len(killed)
    /\ \A i \in Range(killed) : Handled(i)
    /\ killed # <<>> => (loads >= 1 /\ platform # None /\ pc # "load")

\* Both sessions of a pass have been terminated, in list order
C30_Witness ==
    pc = "done" /\ Len(sessions) = 2 /\ killed = <<1, 2>>

\* A list in the opposite order
Reverse(s) == [i \in 1..Len(s) |-> s[Len(s) + 1 - i]]

\* The session graph load_sessions builds when the platform lists the same
\* sessions in the opposite order
LoadedReversed ==
    LoadSessionsResult(Reverse(Val(platform).logind), Val(platform).conns)

\* C22: when the platform returns the sessions in another order, the same
\* sessions are produced, compute_idleness_metric returns the same for each
\* of them, and the sessions terminated in the pass are the same
C22_OrderIndependent ==
    pc = "done" =>
        LET rev == LoadedReversed
            n == Len(sessions)
        IN /\ Len(rev) = n
           /\ \A i \in 1..n :
                 LET j == n + 1 - i
                     here == ComputeIdlenessMetric(sessions, i, now, FALSE)
                     there == ComputeIdlenessMetric(rev, j, now, FALSE)
                 IN /\ rev[j].session_id = sessions[i].session_id
                    /\ there.raised = here.raised
                    /\ there.idle = here.idle
                    /\ Terminated(i) <=>
                          /\ ~SkipIneligibleSession(rev[j], Some(excluded_users))
                          /\ KilledAfter(<<>>, j, there, timeout, dry_run) # <<>>

\* A pass over two sessions has ended: a process of the first session
\* tunnels into both sessions, and their durations differ; one of the two
\* has been terminated and the other has not
C22_Witness ==
    /\ pc = "done" /\ Len(sessions) = 2
    /\ \E k \in 1..Len(sessions[1].processes) : BackendsOf(k, 1) = {1, 2}
    /\ ComputeIdlenessMetric(sessions, 1, now, TRUE).idle
         # ComputeIdlenessMetric(sessions, 2, now, TRUE).idle
    /\ Cardinality({i \in 1..2 : Terminated(i)}) = 1

---------------------------------------------------------------------------
(* Properties of skip_ineligible_session *)

\* C3: skip_ineligible_session returns True exactly when the type is x11,
\* wayland or mir, or there is no tty, or the username is in the excluded
\* users list, or the leader pid is 0
C3_SkipIffSomeRule ==
    pc = "filtered" =>
        LET session == Val(args).session
            excluded == Val(args).excluded_users
        IN  Val(ret) = ( \/ session.session_type = "x11"
                         \/ session.session_type = "wayland"
                         \/ session.session_type = "mir"
                         \/ session.tty = None
                         \/ /\ excluded # None
                            /\ \E n \in 1..Len(Val(excluded)) :
                                  Val(excluded)[n] = session.username
                         \/ session.leader = 0 )

\* The filter was applied to a terminal session with a live leader and a
\* user who is not excluded whose only flaw is the missing tty
C3_Witness ==
    /\ pc = "filtered"
    /\ Val(ret) = TRUE
    /\ Val(args).session.session_type \in {"tty", "unspecified"}
    /\ Val(args).session.leader # 0
    /\ Val(args).session.tty = None
    /\ Val(args).excluded_users = Some(<<"ansible">>)
    /\ Val(args).session.username = "auser"

---------------------------------------------------------------------------
(* Properties of compute_idleness_metric *)

\* The candidate set of C6 for the call compute_idleness_metric(sessions[i], now, nested)
Candidates(i, nested) ==
    OwnCandidates(sessions[i]) \cup
    (IF nested THEN {}
     ELSE { Minimum(OwnCandidates(sessions[b])) :
              b \in { c \in AllBackends(i) : OwnCandidates(sessions[c]) # {} } })

\* C6: a finished call returns the minimum of its candidate set (and raises
\* when the set is empty); a call with nested=True that reaches its end holds
\* the minimum of the own candidates only
C6_ReturnsMinimumOfCandidates ==
    /\ pc = "returned" =>
          LET cands == Candidates(Val(args).session, Val(args).nested) IN
          /\ Val(ret).raised <=> cands = {}
          /\ ~Val(ret).raised => Val(ret).idle = Minimum(cands)
    /\ \A n \in 1..Len(stack) :
          (stack[n].nested /\ stack[n].phase = "finish") =>
              LET own == OwnCandidates(sessions[stack[n].session]) IN
              /\ stack[n].m.set <=> own # {}
              /\ stack[n].m.set => stack[n].m.idle = Minimum(own)

\* A top-level call has returned the value of a tunneled session, smaller
\* than each own candidate of a session with terminal and display, whose own
\* candidates differ
C6_Witness ==
    /\ pc = "returned"
    /\ ~Val(args).nested
    /\ LET s == sessions[Val(args).session] IN
          /\ ~IsNone(s.tty) /\ ~IsNone(s.display_idle)
          /\ Cardinality(OwnCandidates(s)) >= 2
          /\ ~Val(ret).raised
          /\ Val(ret).idle < Minimum(OwnCandidates(s))

\* The recursion depth is at most two: an outer call with nested=False and
\* an inner call with nested=True
DepthAtMostTwo ==
    /\ Len(stack) <= 2
    /\ Len(stack) = 2 => (~stack[1].nested /\ stack[2].nested)

\* C10: on every tunnel graph the call stack never exceeds depth two, only a
\* call with nested=False calls on, and every call returns
C10_DepthTwoAndTerminates ==
    /\ [](DepthAtMostTwo)
    /\ <>(pc = "returned")

\* An inner call is running on a session for itself: among three sessions
\* the first tunnels to itself and to the second, the second to the third and
\* the third back to the first
C10_Witness ==
    /\ Len(stack) = 2
    /\ Len(sessions) = 3
    /\ stack[1].session = 1 /\ stack[2].session = 1
    /\ AllBackends(1) = {1, 2}
    /\ AllBackends(2) = {3}
    /\ AllBackends(3) = {1}

\* The session has neither a terminal nor a display idle time
NoOwnSource(s) == IsNone(s.tty) /\ IsNone(s.display_idle)

\* C14: a call on a session without terminal and display idle time raises
\* SessionParseError, and returns no duration, when it is nested or when
\* every tunneled session is without terminal and display idle time as well
C14_NoSourceRaises ==
    pc = "returned" =>
        LET a == Val(args).session IN
        ( /\ NoOwnSource(sessions[a])
          /\ \/ Val(args).nested
             \/ \A b \in AllBackends(a) : NoOwnSource(sessions[b]) )
        => (Val(ret).raised /\ Val(ret).by = None)

\* A top-level call on a session without own source has gone through its two
\* tunneled sessions, both without source, and raised
C14_Witness ==
    /\ pc = "returned" /\ ~Val(args).nested
    /\ NoOwnSource(sessions[Val(args).session])
    /\ AllBackends(Val(args).session) = {1, 2}
    /\ evaluated = {<<Val(args).session, FALSE>>, <<1, TRUE>>, <<2, TRUE>>}
    /\ Val(ret).raised

\* The tunneled sessions of a whose nested evaluation raises
RaisingBackends(a) == { b \in AllBackends(a) : NoOwnSource(sessions[b]) }

\* C15: when the nested evaluation of a tunneled session raises, every
\* tunneled session has still been evaluated and the call returns the minimum
\* of the own candidates and of the results of the other tunneled sessions
C15_InnerErrorSwallowed ==
    (pc = "returned" /\ ~Val(args).nested) =>
        LET a == Val(args).session
            rest == OwnCandidates(sessions[a]) \cup
                    { Minimum(OwnCandidates(sessions[b])) :
                        b \in AllBackends(a) \ RaisingBackends(a) }
        IN  RaisingBackends(a) # {} =>
              /\ \A b \in AllBackends(a) : <<b, TRUE>> \in evaluated
              /\ rest # {} => (~Val(ret).raised /\ Val(ret).idle = Minimum(rest))
              /\ rest = {} => Val(ret).raised

\* The second session tunnels to the first, which has no source, and then
\* to itself: the call on it has evaluated both and returned the value of its
\* own display
C15_Witness ==
    /\ pc = "returned" /\ ~Val(args).nested /\ Val(args).session = 2
    /\ Len(sessions) = 2
    /\ TunnelList(sessions[2]) = <<1, 2>>
    /\ NoOwnSource(sessions[1])
    /\ evaluated = {<<2, FALSE>>, <<1, TRUE>>, <<2, TRUE>>}
    /\ ~Val(ret).raised
    /\ Val(ret).by = <<"display">>

\* The session at position i is listed among the tunneled sessions of one of
\* its own processes
SelfTunneling(i) == i \in AllBackends(i)

\* A call of compute_idleness_metric on a self-tunneling session is running
\* or has returned
SelfTunnelCall ==
    /\ pc \in {"running", "returned"}
    /\ SelfTunneling(Val(args).session)

\* C11 as stated: a call on a self-tunneling session stays within depth two
\* and returns a duration
C11_SelfTunnelReturnsDuration ==
    SelfTunnelCall =>
        /\ DepthAtMostTwo
        /\ pc = "returned" => ~Val(ret).raised

\* C11 amended: a call on a self-tunneling session stays within depth two and
\* ends; it returns a duration when the session has a terminal or a display
\* idle time (or, in a top-level call, a tunneled session that has one), and
\* raises SessionParseError when there is no such source
C11_SelfTunnelEndsWithinDepthTwo ==
    /\ [](SelfTunnelCall =>
            /\ DepthAtMostTwo
            /\ pc = "returned" =>
                  (Val(ret).raised <=>
                      Candidates(Val(args).session, Val(args).nested) = {}))
    /\ (pc = "running" /\ SelfTunneling(Val(args).session)) ~> (pc = "returned")

\* A top-level call on a session that tunnels only to itself has made its
\* nested call on the same session and returned a duration
C11_Witness ==
    /\ pc = "returned"
    /\ ~Val(args).nested
    /\ AllBackends(Val(args).session) = {Val(args).session}
    /\ evaluated = {<<Val(args).session, FALSE>>, <<Val(args).session, TRUE>>}
    /\ ~Val(ret).raised

\* The terminal and display signals a session may carry
SignalChoices ==
    [tty : {None} \cup {Some(st) : st \in TtyStats}, display_idle : DisplayChoices]

\* The list ss with the signals of the session at position c replaced
WithSignals(ss, c, sig) ==
    [ss EXCEPT ![c].tty = sig.tty, ![c].display_idle = sig.display_idle]

\* c is two tunnel hops away from a: a backend of a backend of a, but neither
\* a itself nor a direct backend of a
TwoHopsAway(a, c) ==
    /\ c \notin AllBackends(a) \cup {a}
    /\ \E b \in AllBackends(a) : c \in AllBackends(b)

\* C12: the result of a top-level call on A is at most every own signal of
\* each direct backend B, and is the same whatever terminal times and display
\* idle time a session C two hops away carries
C12_OneHopOnly ==
    (pc = "returned" /\ ~Val(args).nested) =>
        LET a == Val(args).session IN
        /\ \A b \in AllBackends(a) : \A d \in OwnCandidates(sessions[b]) :
              ~Val(ret).raised /\ Val(ret).idle <= d
        /\ \A c \in 1..Len(sessions) :
              TwoHopsAway(a, c) =>
                  \A sig \in SignalChoices :
                      LET other == ComputeIdlenessMetric(
                                       WithSignals(sessions, c, sig), a, now, FALSE)
                      IN  /\ other.raised = Val(ret).raised
                          /\ other.idle = Val(ret).idle

\* A top-level call on the first of three sessions, tunneling to the second,
\* which tunnels to the third, has returned a minute of idleness although the
\* display of the third has not been idle at all
C12_Witness ==
    /\ pc = "returned" /\ ~Val(args).nested /\ Val(args).session = 1
    /\ Len(sessions) = 3
    /\ AllBackends(1) = {2} /\ AllBackends(2) = {3}
    /\ sessions[3].display_idle = Some(0)
    /\ ~Val(ret).raised /\ Val(ret).idle > 0

\* The list ss with entry t of the tunneled_sessions of process k of the
\* session at position i taken out
WithoutTunnel(ss, i, k, t) ==
    [ss EXCEPT ![i].processes[k].tunneled_sessions =
        [n \in 1..(Len(@) - 1) |-> IF n < t THEN @[n] ELSE @[n + 1]]]

\* The duration the session at position b contributes as a tunneled session
\* of a call: that of its own signals, for a top-level call, if it has any
TunnelDuration(b, nested) ==
    IF nested \/ OwnCandidates(sessions[b]) = {} THEN None
    ELSE Some(Minimum(OwnCandidates(sessions[b])))

\* The ways of taking one activity source from the session at position i
\* (its terminal, its display idle time or one tunneled session), each with
\* the duration d that the source contributes to a call
SourceRemovals(i, nested) ==
    LET s == sessions[i] IN
    (IF IsNone(s.tty) THEN {}
     ELSE {[ss |-> [sessions EXCEPT ![i].tty = None],
            d |-> Some(Minimum({now - Val(s.tty).atime, now - Val(s.tty).mtime}))]})
    \cup
    (IF IsNone(s.display_idle) THEN {}
     ELSE {[ss |-> [sessions EXCEPT ![i].display_idle = None], d |-> s.display_idle]})
    \cup
    { [ss |-> WithoutTunnel(sessions, i, k[1], k[2]),
       d |-> TunnelDuration(s.processes[k[1]].tunneled_sessions[k[2]], nested)] :
        k \in { <<p, t>> \in (1..Len(s.processes)) \X (1..Len(TunnelList(s))) :
                  t <= Len(s.processes[p].tunneled_sessions) } }

\* C23: compared with the same call on the session with one activity source
\* less (before), the call on the session as it is (after) returns a duration
\* whenever before does, never a greater one, and returns the duration of the
\* added source when that is smaller than what before returns. A tunneled
\* session is a source of top-level calls only
C23_MoreSourcesNeverIncrease ==
    pc = "returned" =>
        LET i == Val(args).session
            nested == Val(args).nested
            after == Val(ret)
        IN \A r \in SourceRemovals(i, nested) :
              LET before == ComputeIdlenessMetric(r.ss, i, now, nested) IN
              /\ ~before.raised => (~after.raised /\ after.idle <= before.idle)
              /\ (~IsNone(r.d) /\ (before.raised \/ Val(r.d) < before.idle)) =>
                    (~after.raised /\ after.idle = Val(r.d))
              /\ (IsNone(r.d) /\ before.raised) => after.raised

\* A top-level call has returned the duration of a tunneled session, which
\* is smaller than what the call returns without that tunneled session
C23_Witness ==
    /\ pc = "returned" /\ ~Val(args).nested /\ ~Val(ret).raised
    /\ \E r \in SourceRemovals(Val(args).session, FALSE) :
          LET before == ComputeIdlenessMetric(r.ss, Val(args).session, now, FALSE) IN
          /\ Len(TunnelList(r.ss[Val(args).session]))
               < Len(TunnelList(sessions[Val(args).session]))
          /\ ~before.raised /\ ~IsNone(r.d)
          /\ Val(r.d) < before.idle /\ Val(ret).idle = Val(r.d)

\* The sources of a call on the session at position i, in the order of lines
\* 268-305, each with its duration and the name the debug log gives it
SourceList(i, nested) ==
    LET s == sessions[i]
        tl == TunnelList(s)
    IN (IF IsNone(s.tty) THEN <<>>
        ELSE << [d |-> now - Val(s.tty).atime, by |-> <<"atime">>],
                [d |-> now - Val(s.tty).mtime, by |-> <<"mtime">>] >>)
       \o (IF IsNone(s.display_idle) THEN <<>>
           ELSE << [d |-> Val(s.display_idle), by |-> <<"display">>] >>)
       \o Flatten([t \in 1..Len(tl) |->
              IF IsNone(TunnelDuration(tl[t], nested)) THEN <<>>
              ELSE << [d |-> Val(TunnelDuration(tl[t], nested)),
                       by |-> <<"nested", sessions[tl[t]].session_id>>] >>])

\* C27: the source a finished call names as having determined its result is
\* the earliest, in source order, of the sources whose duration equals the
\* returned minimum
C27_TiesBrokenBySourceOrder ==
    (pc = "returned" /\ ~Val(ret).raised) =>
        LET src == SourceList(Val(args).session, Val(args).nested) IN
        \E n \in 1..Len(src) :
            /\ src[n].d = Val(ret).idle
            /\ \A k \in 1..(n - 1) : src[k].d # Val(ret).idle
            /\ Val(ret).by = src[n].by

\* A top-level call has named the display idle time although a tunneled
\* session has the same duration, the terminal being younger on neither stamp
C27_Witness ==
    /\ pc = "returned" /\ ~Val(ret).raised /\ Val(ret).by = <<"display">>
    /\ LET src == SourceList(Val(args).session, Val(args).nested) IN
       /\ \E n \in 1..Len(src) :
             src[n].by[1] = "nested" /\ src[n].d = Val(ret).idle
       /\ \E n \in 1..Len(src) : src[n].by = <<"atime">>

---------------------------------------------------------------------------
(* Properties of the configuration of main *)

\* The values of a configuration key that switch it on
Affirmative == {"1", "yes", "true", "on", "YES"}

\* C24: the effective dry-run is the value of the configuration or the
\* command-line flag, and likewise verbose, which sets the logger to DEBUG;
\* a dry-run of yes in the configuration holds without the flag
C24_FlagsSetNeverUnset ==
    pc = "parsed" =>
        /\ dry_run <=> (Val(args).cfg_dry_run \in Affirmative \/ Val(args).dry_run)
        /\ Val(ret).verbose <=>
              (Val(args).cfg_verbose \in Affirmative \/ Val(args).verbose)
        /\ Val(ret).level = "DEBUG" <=> Val(ret).verbose
        /\ (Val(args).cfg_dry_run = "yes" /\ ~Val(args).dry_run) => dry_run

\* The configuration says dry-run = yes and verbose = no, the command line
\* has -v and not -n: both are in force
C24_Witness ==
    /\ pc = "parsed"
    /\ Val(args).cfg_dry_run = "yes" /\ ~Val(args).dry_run /\ dry_run
    /\ Val(args).cfg_verbose = "no" /\ Val(args).verbose /\ Val(ret).verbose

---------------------------------------------------------------------------
(* Properties of find_loopback_connections *)

\* Both ends of the row are loopback and exactly one of its ports listens
OneSideListening(row, listening_ports) ==
    /\ IsLoopback(row.local.addr) /\ IsLoopback(row.peer.addr)
    /\ (row.local.port \in listening_ports) # (row.peer.port \in listening_ports)

\* The connection joins the two sockets of the row
Joins(conn, row) ==
    \/ SameSocket(conn.client, row.local) /\ SameSocket(conn.server, row.peer)
    \/ SameSocket(conn.client, row.peer) /\ SameSocket(conn.server, row.local)

\* C25: an established row yields a loopback connection exactly when both
\* ends are loopback and exactly one port is listening, the listening end
\* being the server; the two mirrored rows of one TCP connection yield one
\* connection
C25_LoopbackConnectionsResolved ==
    pc = "resolved" =>
        LET snapshot == Val(args)
            conns == Val(ret)
        IN /\ \A r \in 1..Len(snapshot.established) :
                 OneSideListening(snapshot.established[r], snapshot.listening_ports)
                     <=> \E n \in 1..Len(conns) : Joins(conns[n], snapshot.established[r])
           /\ \A n \in 1..Len(conns) :
                 /\ conns[n].server.port \in snapshot.listening_ports
                 /\ conns[n].client.port \notin snapshot.listening_ports
                 /\ IsLoopback(conns[n].client.addr) /\ IsLoopback(conns[n].server.addr)
                 /\ \E r \in 1..Len(snapshot.established) :
                       Joins(conns[n], snapshot.established[r])
           /\ \A n, k \in 1..Len(conns) :
                 (Joins(conns[n], [local |-> conns[k].client, peer |-> conns[k].server]))
                     => n = k

\* The socket table holds the two rows of one loopback TCP connection to the
\* listening port of the display: one connection comes out, from sshd to Xvnc
C25_Witness ==
    /\ pc = "resolved"
    /\ Val(args).listening_ports = {5901}
    /\ Len(Val(args).established) = 2
    /\ SameSocket(Val(args).established[1].local, Val(args).established[2].peer)
    /\ SameSocket(Val(args).established[1].peer, Val(args).established[2].local)
    /\ Len(Val(ret)) = 1
    /\ Val(ret)[1].client.processes = <<PidOf(1)>>
    /\ Val(ret)[1].server.processes = <<PidOf(2)>>

---------------------------------------------------------------------------
(* Direction of the tunnel edges *)

\* A process of the session at position a is the client of a loopback
\* connection whose server side holds a process of the session at position b
IsClientOf(a, b) ==
    \E c \in 1..Len(Val(platform).conns) :
        /\ Range(Val(platform).conns[c].client) \cap PidsOf(a) # {}
        /\ Range(Val(platform).conns[c].server) \cap PidsOf(b) # {}

\* Signals to give a client session in place of its own: no terminal, or one
\* whose stamps are each the present or the oldest time; no display, or one
\* in use at this moment
ClientSignals ==
    [tty : {None} \cup {Some(st) : st \in [atime : {Now, Minimum(ClockTimes)},
                                           mtime : {Now, Minimum(ClockTimes)}]},
     display_idle : {None, Some(0)}]

\* C29: when a process of A is a loopback client of a process of B and no
\* process of B is a loopback client of a process of A, what
\* compute_idleness_metric returns for B is the same when A is given other
\* terminal times and display idle time, from none to activity at this very
\* moment, and so is the termination of B in the pass
C29_TunnelEdgesDirectional ==
    pc = "done" =>
        \A a, b \in 1..Len(sessions) :
            (IsClientOf(a, b) /\ ~IsClientOf(b, a)) =>
                \A sig \in ClientSignals :
                    LET other == ComputeIdlenessMetric(
                                     WithSignals(sessions, a, sig), b, now, FALSE)
                    IN  /\ other = ComputeIdlenessMetric(sessions, b, now, FALSE)
                        /\ (Handled(b) /\ PassesFilter(b)) =>
                              (Terminated(b) <=>
                                  KilledAfter(<<>>, b, other, timeout, dry_run) # <<>>)

\* The first session is a loopback client of the second and not the other
\* way round; the first has not been idle and is left alone, the second has
\* been idle for the timeout and is terminated
C29_Witness ==
    /\ pc = "done" /\ Len(sessions) = 2 /\ timeout > 0
    /\ IsClientOf(1, 2) /\ ~IsClientOf(2, 1)
    /\ PassesFilter(1) /\ ~Terminated(1)
    /\ \E d \in OwnCandidates(sessions[1]) : d < Threshold(timeout)
    /\ Terminated(2)

---------------------------------------------------------------------------
(* Scenario C: idle SSH session 14 tunneling to the VNC display of session 7 *)

\* Positions of the sessions 14 and 7 in the list
PositionOf(id) == CHOOSE i \in 1..Len(sessions) : sessions[i].session_id = id
Outer14 == PositionOf("14")
Inner7 == PositionOf("7")

\* The pass of Scenario C is over: timeout 15 minutes, dry-run off, session 7
\* with its terminal idle for 30 minutes and its display idle for 2 minutes
ScenarioCDone ==
    /\ pc = "done" /\ timeout = 15 /\ ~dry_run
    /\ now - Val(sessions[Inner7].tty).atime = 1800
    /\ now - Val(sessions[Inner7].tty).mtime = 1800
    /\ sessions[Inner7].display_idle = Some(120)

\* C7 as stated: in Scenario C the leader of session 7 is terminated
C7_InnerSessionTerminated ==
    ScenarioCDone => Terminated(Inner7)

\* C7 amended: in Scenario C session 7 is evaluated on its own, and neither
\* session 14 nor session 7 is terminated, because the display idle of 2
\* minutes is a signal of both; with timeout 15 and dry-run off session 7 is
\* terminated exactly when its terminal has been idle for 15 minutes and its
\* display, if it has one, as well
C7_InnerSessionSparedByItsDisplay ==
    /\ ScenarioCDone =>
          /\ <<Inner7, FALSE>> \in evaluated
          /\ ~Terminated(Inner7)
          /\ ~Terminated(Outer14)
    /\ (pc = "done" /\ timeout = 15 /\ ~dry_run) =>
          ( Terminated(Inner7) <=>
              /\ now - Val(sessions[Inner7].tty).atime >= 900
              /\ \/ IsNone(sessions[Inner7].display_idle)
                 \/ Val(sessions[Inner7].display_idle) >= 900 )

\* The pass of Scenario C has ended, with session 14 tunneling into session 7
C7_Witness ==
    /\ ScenarioCDone
    /\ AllBackends(Outer14) = {Inner7}
    /\ ret # None

====
